---------------------------- MODULE Spec2Model ----------------------------
(***************************************************************************)
(* A model of saahiluppal/generative_networks:                             *)
(*   - src/dcgan.py : the DCGAN training orchestrator (DCGAN.train), its   *)
(*     two update steps and the periodic checkpoint / sample export;       *)
(*   - src/losses.py: the weighted / smoothed minimax losses and the       *)
(*     module-level loss check, in fixed-point arithmetic.                 *)
(***************************************************************************)
EXTENDS Integers, Sequences, FiniteSets, TLC

(***************************************************************************)
(* Program constants of src/dcgan.py.                                      *)
(***************************************************************************)
EPOCHS == 1000

K == 2

max_to_keep == 3

CheckpointPeriod == 100

(***************************************************************************)
(* Bounds of the model.  The dataset of the program is MNIST in batches    *)
(* of 128 (469 batches an epoch); the model runs every dataset length      *)
(* from 1 to MaxBatches.                                                   *)
(***************************************************************************)
MaxBatches == 3

\* tf.random.normal: the draw is abstracted to one of two noise classes.
Noise == {"z0", "z1"}

\* The value of a name that has not been assigned yet (a Python local
\* before its first assignment).
Unset == [fn |-> "unset"]

VARIABLES
    pc,                       \* position of DCGAN.train
    numBatches,               \* len(self.dataset): batches per epoch
    epoch,                    \* loop variable of `for epoch in range(EPOCHS)`
    index,                    \* loop variable of `enumerate(self.dataset)`
    g_loss, d_loss,           \* locals of DCGAN.train
    generator,                \* self.generator: trainable and moving (BN) variables
    discriminator,            \* self.discriminator: trainable variables
    generator_optimizer,      \* Adam state of the generator
    discriminator_optimizer,  \* Adam state of the discriminator
    checkpoints,              \* checkpoints retained in ./checkpoints, oldest first
    save_counter,             \* ckpt.save_counter
    images,                   \* files written to ./images, in order
    console,                  \* the last `E: ...` line printed, and how many were printed
    hist                      \* history of the run (observation only)

trainVars == <<pc, numBatches, epoch, index, g_loss, d_loss, generator,
               discriminator, generator_optimizer, discriminator_optimizer,
               checkpoints, save_counter, images, console, hist>>

VARIABLES
    lpc,                      \* position of the losses.py script (lines 83-87)
    real_output,              \* losses.py:83
    generated_output,         \* losses.py:84
    real_weights,             \* arguments of the call of line 86
    generated_weights,
    smoothing,
    weights,                  \* arguments of the call of line 87
    g_smoothing,
    ce_real,                  \* labels and logits handed to the cross-entropy of lines 37-43
    out_d, out_g              \* the two printed values

lossVars == <<lpc, real_output, generated_output, real_weights,
              generated_weights, smoothing, weights, g_smoothing, ce_real,
              out_d, out_g>>

vars == <<trainVars, lossVars>>

(***************************************************************************)
(* src/losses.py in fixed-point arithmetic: the integer v stands for the   *)
(* real number v / One.  Products and quotients round to nearest.          *)
(***************************************************************************)
One == 10 ^ 4

Half == One \div 2

\* The tolerance 1e-3 of the loss check.
Tolerance == One \div 1000

\* a * b; a is split so that no intermediate leaves 32 bits.
Mul(a, b) == (a \div One) * b + ((a % One) * b + Half) \div One

Abs(x) == IF x >= 0 THEN x ELSE -x

\* tf.nn.relu
Relu(x) == IF x > 0 THEN x ELSE 0

\* exp(-f) for 0 <= f < 1: the Taylor series to k terms, Horner's way.
RECURSIVE ExpFrac(_, _, _)
ExpFrac(f, k, r) ==
    IF k = 0 THEN r ELSE ExpFrac(f, k - 1, One - (Mul(f, r) + k \div 2) \div k)

\* r * exp(-n) for a natural number n; 3679 / One is exp(-1).
RECURSIVE ExpInt(_, _)
ExpInt(r, n) == IF n = 0 \/ r = 0 THEN r ELSE ExpInt(Mul(r, 3679), n - 1)

\* tf.exp(-a) for a >= 0
ExpNeg(a) == ExpInt(ExpFrac(a % One, 10, One), a \div One)

\* tf.math.log1p(y) for 0 <= y <= 1: 2 * atanh(y / (2 + y)), five terms.
Log1p(y) ==
    LET t  == (y * One + (2 * One + y) \div 2) \div (2 * One + y)
        t2 == Mul(t, t)
        r9 == One \div 9
        r7 == One \div 7 + Mul(t2, r9)
        r5 == One \div 5 + Mul(t2, r7)
        r3 == One \div 3 + Mul(t2, r5)
        r1 == One + Mul(t2, r3)
    IN  2 * Mul(t, r1)

\* tf.nn.weighted_cross_entropy_with_logits on one element:
\*   (1 - z) * x + (1 + (q - 1) * z) * (log1p(exp(-|x|)) + relu(-x))
WeightedCrossEntropy(z, x, q) ==
    LET log_weight == One + Mul(q - One, z)
    IN  Mul(One - z, x) + Mul(log_weight, Log1p(ExpNeg(Abs(x))) + Relu(-x))

RECURSIVE Sum(_)
Sum(v) == IF v = <<>> THEN 0 ELSE Head(v) + Sum(Tail(v))

\* tf.reduce_mean of a vector
ReduceMean(v) == (Sum(v) + Len(v) \div 2) \div Len(v)

\* tf.ones_like, tf.zeros_like
OnesLike(v) == [i \in DOMAIN v |-> One]

ZerosLike(v) == [i \in DOMAIN v |-> 0]

\* losses.py lines 33-35: what `real_outputs` is rebound to.
SmoothReal(real_outputs, s) ==
    IF s > 0
    THEN [i \in DOMAIN real_outputs |->
              Mul(real_outputs[i], One - s) + Mul(Half, s)]
    ELSE real_outputs

\* losses.py lines 38-42: the arguments of the cross-entropy of the real term.
RealTermInputs(real_outputs, s) ==
    LET r == SmoothReal(real_outputs, s)
    IN  [labels |-> OnesLike(r), logits |-> r]

\* losses.py lines 10-55
minimax_discriminator_loss(real_outputs, generated_outputs, rw, gw, s) ==
    LET ce == RealTermInputs(real_outputs, s)
        loss_on_real ==
            ReduceMean([i \in DOMAIN ce.logits |->
                WeightedCrossEntropy(ce.labels[i], ce.logits[i], rw)])
        zeros == ZerosLike(generated_outputs)
        loss_on_generated ==
            ReduceMean([i \in DOMAIN generated_outputs |->
                WeightedCrossEntropy(zeros[i], generated_outputs[i], gw)])
    IN  loss_on_real + loss_on_generated

\* losses.py line 74: the first argument of the inner call.
GeneratorRealSlotMut(generated_outputs) == generated_outputs

GeneratorRealSlot(generated_outputs) == OnesLike(generated_outputs)

\* losses.py lines 58-81
minimax_generator_loss(generated_outputs, w, s) ==
    - minimax_discriminator_loss(GeneratorRealSlot(generated_outputs),
                                 generated_outputs, w, w, s)

\* losses.py lines 83-84 and 89-90, at scale One.
ScriptReal == <<-50000, 14000, 125000, 27000>>

ScriptGenerated == <<100000, 44000, -55000, 36000>>

expected_d_loss == 61964

expected_g_loss == -48241

\* Inputs of the bounded runs of the losses.
MaxLen == 2

Logits == {-55000, 14000, 100000}

Vectors == UNION {[1..n -> Logits] : n \in 1..MaxLen}

WeightValues == {One, 2 * One}

SmoothingValues == {0, One \div 4}

(***************************************************************************)
(* Networks and optimizers.  A parameter set is abstracted to the number   *)
(* of updates applied to it; two parameter sets with the same count are    *)
(* the same parameters.                                                    *)
(***************************************************************************)

\* Generator.call under a training flag: BatchNormalization updates its
\* moving statistics only in training mode.
GeneratorForward(gen, training) ==
    IF training THEN [gen EXCEPT !.moving = @ + 1] ELSE gen

\* Discriminator.call: Conv2D / LeakyReLU / Dropout / Dense hold no
\* non-trainable state, whatever the training flag.
DiscriminatorForward(disc, training) == disc

\* Adam.apply_gradients on one variable list.
ApplyGradients(opt) == [opt EXCEPT !.iterations = @ + 1]

UpdateTrainable(net) == [net EXCEPT !.trainable = @ + 1]

\* train_discriminator, line 126: self.generator(noise), no training flag.
TrainDiscGeneratorMut(gen) == GeneratorForward(gen, TRUE)

TrainDiscGenerator(gen) == GeneratorForward(gen, FALSE)

\* train_generator, line 145: self.discriminator(generated_images), then the
\* gradient is taken w.r.t. the generator's variables only.
TrainGenDiscriminator(disc) == DiscriminatorForward(disc, FALSE)

\* discriminator_loss(real_output, fake_output) of one call, as the inputs
\* that determine it.
DiscLossValue(gen, disc, i, z) ==
    [fn |-> "discriminator_loss", g |-> gen.trainable, d |-> disc.trainable,
     batch |-> i, z |-> z]

\* generator_loss(fake_output) of one call.
GenLossValue(gen, disc, z) ==
    [fn |-> "generator_loss", g |-> gen.trainable, d |-> disc.trainable,
     batch |-> -1, z |-> z]

(***************************************************************************)
(* DCGAN.train, lines 164-176.                                             *)
(***************************************************************************)

\* line 169: if index % K == 0
GenCondMut(i) == i % K = 1

GenCond(i) == i % K = 0

\* line 175: if (epoch + 1) % 100 == 0
ExportCondMut(e) == e % CheckpointPeriod = 0

ExportCond(e) == (e + 1) % CheckpointPeriod = 0

\* line 173: the f-string of the log line (the wall-clock time left out).
LogLineMut(e, g, d) == [E |-> e + 1, G |-> d, D |-> g]

LogLine(e, g, d) == [E |-> e + 1, G |-> g, D |-> d]

\* f'{epoch}': the decimal digits of a natural number.
RECURSIVE Decimal(_)
Decimal(n) == IF n < 10 THEN <<n>> ELSE Append(Decimal(n \div 10), n % 10)

\* line 194: f'{epoch}.png'
ImageName(e) == <<Decimal(e), "png">>

\* CheckpointManager._sweep: delete the oldest while more than max_to_keep.
RECURSIVE Sweep(_)
Sweep(cps) == IF Len(cps) > max_to_keep THEN Sweep(Tail(cps)) ELSE cps

\* CheckpointManager.save (line 198) under max_to_keep=3 (lines 161-162).
ManagerSaveMut(cps, c) ==
    IF Len(cps) >= max_to_keep THEN cps ELSE Append(cps, c)

ManagerSave(cps, c) == Sweep(Append(cps, c))

TrainFresh ==
    /\ epoch = 0
    /\ index = 0
    /\ g_loss = Unset
    /\ d_loss = Unset
    /\ generator = [trainable |-> 0, moving |-> 0]
    /\ discriminator = [trainable |-> 0]
    /\ generator_optimizer = [iterations |-> 0]
    /\ discriminator_optimizer = [iterations |-> 0]
    /\ checkpoints = <<>>
    /\ save_counter = 0
    /\ images = <<>>
    /\ console = [n |-> 0, last |-> Unset]
    /\ hist = [iterD |-> 0, iterG |-> 0, iterIdx |-> -1, iters |-> 0,
               dSinceG |-> 0, gap |-> 0, gapEpochs |-> 0, gSteps |-> 0,
               gEpoch |-> -1, lastG |-> Unset, lastD |-> Unset,
               exports |-> <<>>, logAt |-> -1]

TrainInit ==
    /\ pc = "epoch_head"
    /\ numBatches \in 1..MaxBatches
    /\ TrainFresh

\* losses.py is not imported by dcgan.py: while DCGAN.train runs, the loss
\* script is not running.
LossIdle ==
    /\ lpc = "idle"
    /\ real_output = <<>>
    /\ generated_output = <<>>
    /\ real_weights = One
    /\ generated_weights = One
    /\ smoothing = 0
    /\ weights = One
    /\ g_smoothing = 0
    /\ ce_real = [labels |-> <<>>, logits |-> <<>>]
    /\ out_d = 0
    /\ out_g = 0

Init == TrainInit /\ LossIdle

\* for epoch in range(EPOCHS): the next epoch starts, or the loop is over.
EpochStart ==
    /\ pc = "epoch_head"
    /\ epoch < EPOCHS
    /\ pc' = "batch_head"
    /\ index' = 0
    /\ UNCHANGED <<numBatches, epoch, g_loss, d_loss, generator, discriminator,
                   generator_optimizer, discriminator_optimizer, checkpoints,
                   save_counter, images, console, hist>>
    /\ UNCHANGED lossVars

Finish ==
    /\ pc = "epoch_head"
    /\ epoch >= EPOCHS
    /\ pc' = "done"
    /\ UNCHANGED <<numBatches, epoch, index, g_loss, d_loss, generator,
                   discriminator, generator_optimizer, discriminator_optimizer,
                   checkpoints, save_counter, images, console, hist>>
    /\ UNCHANGED lossVars

\* for index, images in enumerate(self.dataset): the next batch is drawn.
FetchBatch ==
    /\ pc = "batch_head"
    /\ index < numBatches
    /\ pc' = "disc"
    /\ hist' = [hist EXCEPT !.iterD = 0, !.iterG = 0, !.iterIdx = index]
    /\ UNCHANGED <<numBatches, epoch, index, g_loss, d_loss, generator,
                   discriminator, generator_optimizer, discriminator_optimizer,
                   checkpoints, save_counter, images, console>>
    /\ UNCHANGED lossVars

\* the dataset is exhausted: the inner loop is over.
EndBatches ==
    /\ pc = "batch_head"
    /\ index >= numBatches
    /\ pc' = "log"
    /\ UNCHANGED <<numBatches, epoch, index, g_loss, d_loss, generator,
                   discriminator, generator_optimizer, discriminator_optimizer,
                   checkpoints, save_counter, images, console, hist>>
    /\ UNCHANGED lossVars

\* line 168: d_loss = self.train_discriminator(images)   (lines 121-137)
DiscriminatorStep ==
    /\ pc = "disc"
    /\ \E z \in Noise :
         LET gen  == TrainDiscGenerator(generator)
             loss == DiscLossValue(gen, discriminator, index, z)
         IN  /\ generator' = gen
             /\ discriminator' =
                    UpdateTrainable(DiscriminatorForward(discriminator, TRUE))
             /\ discriminator_optimizer' = ApplyGradients(discriminator_optimizer)
             /\ d_loss' = loss
             /\ hist' = [hist EXCEPT !.iterD = @ + 1, !.dSinceG = @ + 1,
                                     !.lastD = loss]
    /\ pc' = "gen"
    /\ UNCHANGED <<numBatches, epoch, index, g_loss, generator_optimizer,
                   checkpoints, save_counter, images, console>>
    /\ UNCHANGED lossVars

\* lines 169-170: g_loss = self.train_generator()   (lines 139-153)
GeneratorStep ==
    /\ pc = "gen"
    /\ GenCond(index)
    /\ \E z \in Noise :
         LET gen  == GeneratorForward(generator, TRUE)
             disc == TrainGenDiscriminator(discriminator)
             loss == GenLossValue(generator, disc, z)
         IN  /\ generator' = UpdateTrainable(gen)
             /\ discriminator' = disc
             /\ generator_optimizer' = ApplyGradients(generator_optimizer)
             /\ g_loss' = loss
             /\ hist' = [hist EXCEPT !.iterG = @ + 1, !.lastG = loss,
                                     !.gap = hist.dSinceG, !.dSinceG = 0,
                                     !.gapEpochs = epoch - hist.gEpoch,
                                     !.gEpoch = epoch, !.gSteps = @ + 1,
                                     !.iters = @ + 1]
    /\ pc' = "batch_head"
    /\ index' = index + 1
    /\ UNCHANGED <<numBatches, epoch, d_loss, discriminator_optimizer,
                   checkpoints, save_counter, images, console>>
    /\ UNCHANGED lossVars

\* line 169 false: the generator is not trained in this iteration.
SkipGenerator ==
    /\ pc = "gen"
    /\ ~GenCond(index)
    /\ pc' = "batch_head"
    /\ index' = index + 1
    /\ hist' = [hist EXCEPT !.iters = @ + 1]
    /\ UNCHANGED <<numBatches, epoch, g_loss, d_loss, generator, discriminator,
                   generator_optimizer, discriminator_optimizer, checkpoints,
                   save_counter, images, console>>
    /\ UNCHANGED lossVars

\* lines 172-173: print(f'E: {epoch + 1}, G: {g_loss}, D: {d_loss}, ...')
PrintLog ==
    /\ pc = "log"
    /\ console' = [n |-> console.n + 1, last |-> LogLine(epoch, g_loss, d_loss)]
    /\ hist' = [hist EXCEPT !.logAt = index]
    /\ pc' = "ckpt"
    /\ UNCHANGED <<numBatches, epoch, index, g_loss, d_loss, generator,
                   discriminator, generator_optimizer, discriminator_optimizer,
                   checkpoints, save_counter, images>>
    /\ UNCHANGED lossVars

\* lines 175-176 and 178-199: self.checkpoint_and_save(epoch + 1)
CheckpointAndSave ==
    /\ pc = "ckpt"
    /\ ExportCond(epoch)
    /\ LET arg  == epoch + 1
           gen  == GeneratorForward(generator, FALSE)
           ckpt == [name |-> save_counter + 1, epoch |-> arg,
                    generator |-> gen, discriminator |-> discriminator]
       IN  /\ generator' = gen
           /\ images' = Append(images, ImageName(arg))
           /\ save_counter' = save_counter + 1
           /\ checkpoints' = ManagerSave(checkpoints, ckpt)
           /\ hist' = [hist EXCEPT !.exports =
                          Append(@, [epoch |-> arg, logs |-> console.n,
                                     batches |-> index, saves |-> save_counter + 1])]
    /\ pc' = "epoch_head"
    /\ epoch' = epoch + 1
    /\ UNCHANGED <<numBatches, index, g_loss, d_loss, discriminator,
                   generator_optimizer, discriminator_optimizer, console>>
    /\ UNCHANGED lossVars

\* line 175 false: nothing is exported after this epoch.
SkipCheckpoint ==
    /\ pc = "ckpt"
    /\ ~ExportCond(epoch)
    /\ pc' = "epoch_head"
    /\ epoch' = epoch + 1
    /\ UNCHANGED <<numBatches, index, g_loss, d_loss, generator, discriminator,
                   generator_optimizer, discriminator_optimizer, checkpoints,
                   save_counter, images, console, hist>>
    /\ UNCHANGED lossVars

Next ==
    \/ EpochStart
    \/ Finish
    \/ FetchBatch
    \/ EndBatches
    \/ DiscriminatorStep
    \/ GeneratorStep
    \/ SkipGenerator
    \/ PrintLog
    \/ CheckpointAndSave
    \/ SkipCheckpoint

Spec == Init /\ [][Next]_vars

\* The loop of DCGAN.train is sequential code: whenever a step is possible
\* the interpreter takes it.
FairSpec == Spec /\ WF_vars(Next)


(***************************************************************************)
(* The script of src/losses.py, lines 83-87, and the same two calls on     *)
(* bounded inputs.                                                         *)
(***************************************************************************)
TrainIdle ==
    /\ pc = "idle"
    /\ numBatches = 1
    /\ TrainFresh

\* the module as written: the literals of lines 83-84, default arguments.
ScriptInputs ==
    /\ real_output = ScriptReal
    /\ generated_output = ScriptGenerated
    /\ real_weights = One
    /\ generated_weights = One
    /\ smoothing = One \div 4
    /\ weights = One
    /\ g_smoothing = 0

BoundedInputs ==
    /\ real_output \in Vectors
    /\ generated_output \in Vectors
    /\ real_weights \in WeightValues
    /\ generated_weights \in WeightValues
    /\ smoothing \in SmoothingValues
    /\ weights \in WeightValues
    /\ g_smoothing \in SmoothingValues

LossInit ==
    /\ TrainIdle
    /\ lpc = "line86"
    /\ ScriptInputs \/ BoundedInputs
    /\ ce_real = [labels |-> <<>>, logits |-> <<>>]
    /\ out_d = 0
    /\ out_g = 0

\* line 86: print(minimax_discriminator_loss(real_output, generated_output))
CallDiscriminatorLoss ==
    /\ lpc = "line86"
    /\ ce_real' = RealTermInputs(real_output, smoothing)
    /\ out_d' = minimax_discriminator_loss(real_output, generated_output,
                                           real_weights, generated_weights,
                                           smoothing)
    /\ lpc' = "line87"
    /\ UNCHANGED <<real_output, generated_output, real_weights,
                   generated_weights, smoothing, weights, g_smoothing, out_g>>
    /\ UNCHANGED trainVars

\* line 87: print(minimax_generator_loss(generated_output))
CallGeneratorLoss ==
    /\ lpc = "line87"
    /\ out_g' = minimax_generator_loss(generated_output, weights, g_smoothing)
    /\ lpc' = "done"
    /\ UNCHANGED <<real_output, generated_output, real_weights,
                   generated_weights, smoothing, weights, g_smoothing,
                   ce_real, out_d>>
    /\ UNCHANGED trainVars

LossNext ==
    \/ CallDiscriminatorLoss
    \/ CallGeneratorLoss

LossSpec == LossInit /\ [][LossNext]_vars


(***************************************************************************)
(* Properties of DCGAN.train.                                              *)
(***************************************************************************)

\* The positions of DCGAN.train inside an epoch, until the epoch's export.
InEpoch == pc \in {"batch_head", "disc", "gen", "log", "ckpt"}

\* C1: in every epoch, the batch at 0-based position i (i restarts at 0 in
\* each epoch) gets exactly one DiscriminatorStep, and a GeneratorStep in
\* the same iteration if and only if i mod K = 0, after the
\* DiscriminatorStep; no GeneratorStep runs in an iteration before its
\* DiscriminatorStep.
C1_StepsPerBatch ==
    /\ hist.iterD <= 1
    /\ hist.iterG <= hist.iterD
    /\ pc = "gen" => hist.iterD = 1 /\ hist.iterG = 0 /\ hist.iterIdx = index
    /\ (pc \in {"batch_head", "log"} /\ index > 0) =>
          /\ hist.iterIdx = index - 1
          /\ hist.iterD = 1
          /\ hist.iterG = (IF (index - 1) % K = 0 THEN 1 ELSE 0)
    /\ InEpoch =>
          /\ index <= numBatches
          /\ hist.iters = epoch * numBatches + index
          /\ discriminator_optimizer.iterations =
                 hist.iters + (IF pc = "gen" THEN 1 ELSE 0)
    /\ pc = "log" => index = numBatches

C1_Witness ==
    /\ pc = "batch_head"
    /\ epoch = 1
    /\ index = 3
    /\ hist.iterD = 1
    /\ hist.iterG = 1
    /\ generator_optimizer.iterations = 4

\* C2: a DiscriminatorStep changes the discriminator's parameters and the
\* discriminator optimizer's state and leaves the generator's parameters
\* (its normalization statistics included) and the generator optimizer's
\* state as they were; a GeneratorStep changes the generator's parameters
\* and the generator optimizer's state and leaves the discriminator's
\* parameters and the discriminator optimizer's state as they were.
C2_StepFrames ==
    [][ /\ pc = "disc" =>
              /\ generator' = generator
              /\ generator_optimizer' = generator_optimizer
              /\ discriminator' # discriminator
              /\ discriminator_optimizer' # discriminator_optimizer
        /\ (pc = "gen" /\ hist'.gSteps # hist.gSteps) =>
              /\ discriminator' = discriminator
              /\ discriminator_optimizer' = discriminator_optimizer
              /\ generator' # generator
              /\ generator_optimizer' # generator_optimizer ]_vars

C2_Witness ==
    /\ pc = "batch_head"
    /\ hist.gSteps = 3
    /\ discriminator.trainable = 4
    /\ generator.trainable = 3
    /\ generator.moving = 3

\* C3: the retained checkpoints are never more than 3 and are always the
\* most recently saved ones, oldest first; once 3 have been saved exactly
\* the 3 most recent exist; at the end of the 1000-epoch run they are those
\* of epochs 800, 900 and 1000.
C3_CheckpointRotation ==
    /\ Len(checkpoints) <= 3
    /\ Len(checkpoints) = (IF save_counter < 3 THEN save_counter ELSE 3)
    /\ \A i \in 1..Len(checkpoints) :
          /\ checkpoints[i].name = save_counter - Len(checkpoints) + i
          /\ checkpoints[i].epoch = 100 * checkpoints[i].name
    /\ (pc = "done" /\ EPOCHS = 1000) =>
          [i \in 1..Len(checkpoints) |-> checkpoints[i].epoch]
              = <<800, 900, 1000>>

C3_Witness ==
    /\ save_counter = 4
    /\ Len(checkpoints) = 3
    /\ checkpoints[1].epoch = 200
    /\ checkpoints[3].epoch = 400

\* C4: checkpoint_and_save runs exactly once after each epoch whose 1-based
\* number is a multiple of 100, after all batches and the log line of that
\* epoch, and at no other time; its image is named by that epoch number
\* ("100.png", "200.png", ...); each export writes one image and saves one
\* checkpoint, so there are as many images as checkpoint saves.
C4_ExportEvery100 ==
    /\ Len(hist.exports) = epoch \div 100
    /\ Len(images) = Len(hist.exports)
    /\ save_counter = Len(images)
    /\ \A i \in 1..Len(hist.exports) :
          /\ hist.exports[i].epoch = 100 * i
          /\ hist.exports[i].logs = 100 * i
          /\ hist.exports[i].batches = numBatches
          /\ hist.exports[i].saves = i
          /\ images[i] = <<Decimal(100 * i), "png">>
    /\ Len(images) >= 1 => images[1] = << <<1, 0, 0>>, "png" >>
    /\ Len(images) >= 10 => images[10] = << <<1, 0, 0, 0>>, "png" >>

C4_Witness ==
    /\ pc = "epoch_head"
    /\ epoch = 200
    /\ Len(images) = 2
    /\ images[2] = << <<2, 0, 0>>, "png" >>

\* What C7 says of every state: one log line per finished epoch, printed
\* after the epoch's last batch, carrying the 1-based epoch number and the
\* values returned by the most recent GeneratorStep and DiscriminatorStep.
C7_LogLines ==
    /\ console.n = (IF pc = "ckpt" THEN epoch + 1 ELSE epoch)
    /\ console.n > 0 =>
          /\ console.last.E = console.n
          /\ hist.logAt = numBatches
    /\ pc = "ckpt" =>
          /\ console.last.G = hist.lastG
          /\ console.last.D = hist.lastD
          /\ console.last.G.fn = "generator_loss"
          /\ console.last.D.fn = "discriminator_loss"
          /\ console.last.D.batch = numBatches - 1
    /\ pc = "done" => epoch = EPOCHS /\ console.n = EPOCHS

C9_FirstLogHasUnsetGeneratorLoss ==
    console.n = 1 => console.last.G = Unset

\* C9 as amended: g_loss is unset exactly until the first GeneratorStep;
\* with at least one batch per epoch the batch at position 0 runs a
\* GeneratorStep, so at every log line g_loss has been assigned by a
\* GeneratorStep of the same epoch and no log line carries an unset loss.
C9_GeneratorLossSetAtEveryLog ==
    /\ g_loss = Unset <=> generator_optimizer.iterations = 0
    /\ pc = "log" => g_loss # Unset /\ hist.gEpoch = epoch
    /\ console.n > 0 => console.last.G # Unset /\ console.last.D # Unset

C9_Witness ==
    /\ pc = "ckpt"
    /\ epoch = 0
    /\ console.n = 1
    /\ console.last.G.fn = "generator_loss"

\* C10 as stated: between any two consecutive GeneratorSteps exactly K
\* DiscriminatorSteps run, also across an epoch boundary.
C10_AlwaysKBetweenGeneratorSteps ==
    hist.gSteps >= 2 => hist.gap = K

\* C10 as amended: between two consecutive GeneratorSteps of the same epoch
\* exactly K DiscriminatorSteps run; between the last GeneratorStep of an
\* epoch and the first of the next epoch ((B - 1) mod K) + 1 run, B the
\* number of batches per epoch.
C10_KWithinEpoch ==
    hist.gSteps >= 2 =>
        /\ hist.gapEpochs \in {0, 1}
        /\ hist.gapEpochs = 0 => hist.gap = K
        /\ hist.gapEpochs = 1 => hist.gap = ((numBatches - 1) % K) + 1

C10_Witness ==
    /\ numBatches = 3
    /\ hist.gSteps >= 2
    /\ hist.gapEpochs = 1
    /\ hist.gap = 1

(***************************************************************************)
(* Properties of src/losses.py.                                            *)
(***************************************************************************)

\* softplus(x) = log(1 + exp(x)), the stable way.
Softplus(x) == Log1p(ExpNeg(Abs(x))) + Relu(x)

\* 1 * (1 - s) + 0.5 * s
SmoothedOne(s) == Mul(One, One - s) + Mul(Half, s)

\* C5: smoothing is applied to the target label of the real term: the
\* cross-entropy of the real term gets the caller's logits unmodified and
\* the target 1 * (1 - s) + 0.5 * s.
C5_SmoothingOnLabels ==
    lpc \in {"line87", "done"} =>
        /\ ce_real.logits = real_output
        /\ ce_real.labels =
               [i \in DOMAIN real_output |-> SmoothedOne(smoothing)]

\* C6 as stated: the generator loss is the negated discriminator loss with
\* the fake logits in both the real and the generated slot.
C6_FakeLogitsInBothSlots ==
    lpc = "done" =>
        out_g = - minimax_discriminator_loss(generated_output, generated_output,
                                             weights, weights, g_smoothing)

\* C6 as amended: the generator loss is the negated discriminator loss with
\* an all-ones tensor in the real slot and the fake logits in the generated
\* slot, the same weights in both weight slots:
\*   -(weights * softplus(-r) + mean softplus(fake)),
\* r = 1 without smoothing and r = 1 * (1 - s) + 0.5 * s with smoothing s;
\* on the script's input it is the documented -4.82408 within 1e-3.
C6_OnesInRealSlot ==
    lpc = "done" =>
        /\ out_g =
              - ( Mul(weights, Softplus(- (IF g_smoothing > 0
                                           THEN SmoothedOne(g_smoothing)
                                           ELSE One)))
                  + ReduceMean([i \in DOMAIN generated_output |->
                                    Softplus(generated_output[i])]) )
        /\ (ScriptInputs => Abs(out_g - expected_g_loss) <= Tolerance)

C6_Witness ==
    /\ lpc = "done"
    /\ ScriptInputs
    /\ out_g = -48242

\* C8: on real = [-5.0, 1.4, 12.5, 2.7], fake = [10.0, 4.4, -5.5, 3.6],
\* default smoothing 0.25 and unit weights the discriminator loss is the
\* documented 6.19637 within 1e-3.
C8_ExpectedDiscriminatorLoss ==
    (lpc \in {"line87", "done"} /\ ScriptInputs) =>
        Abs(out_d - expected_d_loss) <= Tolerance

=============================================================================
